---- MODULE Spec2Model ----
(***************************************************************************)
(* Model of attrs_useful.py: bulk get / set / push / pop / delete of the   *)
(* attributes of an object.                                                *)
(*                                                                         *)
(* An object is its attribute namespace: a function from the names that    *)
(* are present to their values.  A Python dict (and the keyword arguments  *)
(* of a call) is a sequence of <<key, value>> pairs with distinct keys, in *)
(* insertion order, which is the order Python iterates it in.  A list or   *)
(* tuple of pairs is a sequence of <<key, value>> pairs, keys free to      *)
(* repeat.                                                                 *)
(***************************************************************************)
EXTENDS Integers, Sequences, FiniteSets, TLC

VARIABLES obj, call, stack, base, peak

vars == <<obj, call, stack, base, peak>>

\* Longest attribute set / name sequence handed to a single call.
MaxLen == 2
\* Longest attribute set handed to a nested pushattrs call.
MaxNestLen == 2
\* Deepest nesting of pushattrs calls not yet undone by popattrs.
MaxDepth == 2

\* Attribute names; "obj" is also the name of the first parameter of
\* setattrs and pushattrs.
Names == {"a", "b", "obj"}
Values == {0, 1}
Pairs == Names \X Values

\* Every object: any subset of the names present, each with a value.
Objects == UNION {[S -> Values] : S \in SUBSET Names}

SeqsUpTo(S, n) == UNION {[1..k -> S] : k \in 0..n}
KeysOf(items) == {items[i][1] : i \in 1..Len(items)}
NoDup(items) == \A i, j \in 1..Len(items) : items[i][1] = items[j][1] => i = j

PairSeqs(n) == SeqsUpTo(Pairs, n)
DictSeqs(n) == {s \in PairSeqs(n) : NoDup(s)}

(***************************************************************************)
(* Python dict operations.                                                 *)
(***************************************************************************)
DictHas(d, k) == \E i \in 1..Len(d) : d[i][1] = k
DictGet(d, k) == d[CHOOSE i \in 1..Len(d) : d[i][1] = k][2]
\* d[k] = v: an existing key keeps its place, a new key goes last.
DictSet(d, k, v) ==
    IF DictHas(d, k)
    THEN [i \in 1..Len(d) |-> IF d[i][1] = k THEN <<k, v>> ELSE d[i]]
    ELSE Append(d, <<k, v>>)

(***************************************************************************)
(* The running state of one call: the object, the dict the call builds     *)
(* (getattrs' result, pushattrs' prevattrs), the attribute accesses made   *)
(* so far, and the exception raised ("none" while running normally).       *)
(***************************************************************************)
Start(o) == [obj |-> o, dict |-> <<>>, log |-> <<>>, exc |-> "none"]

\* setattr(obj, key, val) on a plain object: create or overwrite.
SetAttr(o, key, val) == [n \in (DOMAIN o) \cup {key} |-> IF n = key THEN val ELSE o[n]]
\* delattr(obj, key) of a present attribute.
DelAttr(o, key) == [n \in (DOMAIN o) \ {key} |-> o[n]]

\* The builtin setattr, as passed by setattrs.
builtin_setattr(st, key, val) ==
    [st EXCEPT !.obj = SetAttr(st.obj, key, val),
               !.log = Append(@, <<"set", key>>)]

\* pushattr: save the current value, then set; getattr raises on an absent name.
pushattr_saves_new(st, key, val) ==
    IF key \notin DOMAIN st.obj
    THEN [st EXCEPT !.log = Append(@, <<"get", key>>), !.exc = "AttributeError"]
    ELSE [st EXCEPT !.dict = DictSet(@, key, val),
                    !.obj = SetAttr(st.obj, key, val),
                    !.log = @ \o << <<"get", key>>, <<"set", key>> >>]

pushattr(st, key, val) ==
    IF key \notin DOMAIN st.obj
    THEN [st EXCEPT !.log = Append(@, <<"get", key>>), !.exc = "AttributeError"]
    ELSE [st EXCEPT !.dict = DictSet(@, key, st.obj[key]),
                    !.obj = SetAttr(st.obj, key, val),
                    !.log = @ \o << <<"get", key>>, <<"set", key>> >>]

\* The setattr parameter of _setattrs_common: the builtin or pushattr.
ApplySetattr(setattr, st, key, val) ==
    IF setattr = "pushattr" THEN pushattr(st, key, val) ELSE builtin_setattr(st, key, val)

\* for arg in attrset : key, val = arg ; setattr(obj, key, val)
RECURSIVE ForPairs(_, _, _, _)
ForPairs(st, setattr, attrset, i) ==
    IF i > Len(attrset) \/ st.exc # "none"
    THEN st
    ELSE ForPairs(ApplySetattr(setattr, st, attrset[i][1], attrset[i][2]), setattr, attrset, i + 1)

\* for key in attrset : setattr(obj, key, attrset[key])
RECURSIVE ForKeys(_, _, _, _)
ForKeys_first_only(st, setattr, attrset, i) ==
    IF i > 1 \/ i > Len(attrset) \/ st.exc # "none"
    THEN st
    ELSE ForKeys(ApplySetattr(setattr, st, attrset[i][1], DictGet(attrset, attrset[i][1])),
                 setattr, attrset, i + 1)

ForKeys(st, setattr, attrset, i) ==
    IF i > Len(attrset) \/ st.exc # "none"
    THEN st
    ELSE ForKeys(ApplySetattr(setattr, st, attrset[i][1], DictGet(attrset, attrset[i][1])),
                 setattr, attrset, i + 1)

Raise(st, e) == [st EXCEPT !.exc = e]

\* _setattrs_common with the first check demanding only "not both".
setattrs_common_allows_neither(st, setattr, args, kwargs) ==
    IF (Len(args) # 0) /\ (Len(kwargs) # 0)
    THEN Raise(st, "TypeError")
    ELSE IF Len(args) # 0
    THEN IF Len(args) # 1
         THEN Raise(st, "TypeError")
         ELSE LET attrset == args[1] IN
              IF attrset.type \in {"list", "tuple"}
              THEN ForPairs(st, setattr, attrset.items, 1)
              ELSE IF attrset.type = "dict"
              THEN ForKeys(st, setattr, attrset.items, 1)
              ELSE Raise(st, "TypeError")
    ELSE IF Len(kwargs) # 0
    THEN ForKeys(st, setattr, kwargs, 1)
    ELSE st

\* _setattrs_common without the check on the number of positional arguments.
setattrs_common_any_count(st, setattr, args, kwargs) ==
    IF (Len(args) # 0) = (Len(kwargs) # 0)
    THEN Raise(st, "TypeError")
    ELSE IF Len(args) # 0
    THEN LET attrset == args[1] IN
         IF attrset.type \in {"list", "tuple"}
         THEN ForPairs(st, setattr, attrset.items, 1)
         ELSE IF attrset.type = "dict"
         THEN ForKeys(st, setattr, attrset.items, 1)
         ELSE Raise(st, "TypeError")
    ELSE IF Len(kwargs) # 0
    THEN ForKeys(st, setattr, kwargs, 1)
    ELSE st

setattrs_common(st, setattr, args, kwargs) ==
    IF (Len(args) # 0) = (Len(kwargs) # 0)
    THEN Raise(st, "TypeError")
    ELSE IF Len(args) # 0
    THEN IF Len(args) # 1
         THEN Raise(st, "TypeError")
         ELSE LET attrset == args[1] IN
              IF attrset.type \in {"list", "tuple"}
              THEN ForPairs(st, setattr, attrset.items, 1)
              ELSE IF attrset.type = "dict"
              THEN ForKeys(st, setattr, attrset.items, 1)
              ELSE Raise(st, "TypeError")
    ELSE IF Len(kwargs) # 0
    THEN ForKeys(st, setattr, kwargs, 1)
    ELSE st

\* Binding a call f(o, *args, **kwargs) to "def f(obj, *args, **kwargs)": a
\* keyword named like the parameter obj, which o already fills, is a TypeError
\* raised before the body runs.
BindsObjTwice(kwargs) == DictHas(kwargs, "obj")

setattrs(o, args, kwargs) ==
    IF BindsObjTwice(kwargs)
    THEN Raise(Start(o), "TypeError")
    ELSE setattrs_common(Start(o), "setattr", args, kwargs)

pushattrs(o, args, kwargs) ==
    IF BindsObjTwice(kwargs)
    THEN Raise(Start(o), "TypeError")
    ELSE setattrs_common(Start(o), "pushattr", args, kwargs)

\* popattrs = setattrs
popattrs(o, args, kwargs) == setattrs(o, args, kwargs)

\* result[attr] = getattr(obj, attr)
GetStep(st, attr) ==
    IF attr \notin DOMAIN st.obj
    THEN [st EXCEPT !.log = Append(@, <<"get", attr>>), !.exc = "AttributeError"]
    ELSE [st EXCEPT !.dict = DictSet(@, attr, st.obj[attr]),
                    !.log = Append(@, <<"get", attr>>)]

RECURSIVE GetLoop(_, _, _)
GetLoop(st, attrnames, i) ==
    IF i > Len(attrnames) \/ st.exc # "none"
    THEN st
    ELSE GetLoop(GetStep(st, attrnames[i]), attrnames, i + 1)

\* getattrs returning from inside the loop, after the first name.
getattrs_first_name_only(o, attrnames) ==
    GetLoop(Start(o), IF attrnames = <<>> THEN <<>> ELSE <<attrnames[1]>>, 1)

getattrs(o, attrnames) == GetLoop(Start(o), attrnames, 1)

\* try : delattr(obj, attr)  except AttributeError : if not ignore_error : raise
\* The except clause never re-raising.
DelStep_never_raises(st, attr, ignore_error) ==
    IF attr \in DOMAIN st.obj
    THEN [st EXCEPT !.obj = DelAttr(st.obj, attr), !.log = Append(@, <<"del", attr>>)]
    ELSE [st EXCEPT !.log = Append(@, <<"del", attr>>)]

\* The except clause re-raising whatever ignore_error says.
DelStep_always_raises(st, attr, ignore_error) ==
    IF attr \in DOMAIN st.obj
    THEN [st EXCEPT !.obj = DelAttr(st.obj, attr), !.log = Append(@, <<"del", attr>>)]
    ELSE [st EXCEPT !.log = Append(@, <<"del", attr>>), !.exc = "AttributeError"]

DelStep(st, attr, ignore_error) ==
    IF attr \in DOMAIN st.obj
    THEN [st EXCEPT !.obj = DelAttr(st.obj, attr), !.log = Append(@, <<"del", attr>>)]
    ELSE [st EXCEPT !.log = Append(@, <<"del", attr>>),
                    !.exc = IF ignore_error THEN "none" ELSE "AttributeError"]

RECURSIVE DelLoop(_, _, _, _)
DelLoop(st, attrnames, ignore_error, i) ==
    IF i > Len(attrnames) \/ st.exc # "none"
    THEN st
    ELSE DelLoop(DelStep(st, attrnames[i], ignore_error), attrnames, ignore_error, i + 1)

delattrs(o, attrnames, ignore_error) == DelLoop(Start(o), attrnames, ignore_error, 1)

(***************************************************************************)
(* The calls a caller makes.  call records the last call: its arguments,   *)
(* the object before it, how it ended ("ok" or the exception's type), what *)
(* it returned and the attribute accesses it made.                         *)
(***************************************************************************)
NoCall == [op |-> "none"]

Ended(st) == IF st.exc = "none" THEN "ok" ELSE st.exc
NoneResult == [kind |-> "None", items |-> <<>>]
DictResult(st) == IF st.exc = "none" THEN [kind |-> "dict", items |-> st.dict]
                  ELSE [kind |-> "raised", items |-> <<>>]
NoResult(st) == IF st.exc = "none" THEN NoneResult
                ELSE [kind |-> "raised", items |-> <<>>]

Positional(t, items) == [type |-> t, items |-> items]

\* A positional argument: a list or tuple of pairs, a dict, or some other value.
PositionalArgs(n) ==
    {Positional(t, s) : t \in {"list", "tuple"}, s \in PairSeqs(n)}
      \cup {Positional("dict", s) : s \in DictSeqs(n)}
      \cup {Positional("str", <<>>)}

\* (args, kwargs) of a call of setattrs or pushattrs: keywords alone, one
\* positional argument alone, one positional argument with keywords, two
\* positional arguments with or without keywords.
CallForms ==
    ({<<>>} \X DictSeqs(MaxLen))
      \cup ({<<p>> : p \in PositionalArgs(MaxLen)} \X {<<>>})
      \cup ({<<p>> : p \in PositionalArgs(1)} \X (DictSeqs(1) \ {<<>>}))
      \cup ({<<p, q>> : p \in PositionalArgs(1), q \in PositionalArgs(0)} \X DictSeqs(1))

NameSeqs == SeqsUpTo(Names, MaxLen + 1)

Init ==
    /\ obj \in Objects
    /\ call = NoCall
    /\ stack = <<>>
    /\ base = obj
    /\ peak = 0

CallGetattrs ==
    /\ call.op = "none"
    /\ \E attrnames \in NameSeqs :
         LET r == getattrs(obj, attrnames) IN
         /\ obj' = r.obj
         /\ call' = [op |-> "getattrs", args |-> <<>>, kwargs |-> <<>>,
                     attrnames |-> attrnames, ignore_error |-> FALSE, pre |-> obj,
                     outcome |-> Ended(r), result |-> DictResult(r), log |-> r.log]
    /\ UNCHANGED <<stack, base, peak>>

CallSetattrs ==
    /\ call.op = "none"
    /\ \E f \in CallForms :
         LET r == setattrs(obj, f[1], f[2]) IN
         /\ obj' = r.obj
         /\ call' = [op |-> "setattrs", args |-> f[1], kwargs |-> f[2],
                     attrnames |-> <<>>, ignore_error |-> FALSE, pre |-> obj,
                     outcome |-> Ended(r), result |-> NoResult(r), log |-> r.log]
    /\ UNCHANGED <<stack, base, peak>>

CallPushattrs ==
    /\ call.op = "none"
    /\ \E f \in CallForms :
         LET r == pushattrs(obj, f[1], f[2]) IN
         /\ obj' = r.obj
         /\ call' = [op |-> "pushattrs", args |-> f[1], kwargs |-> f[2],
                     attrnames |-> <<>>, ignore_error |-> FALSE, pre |-> obj,
                     outcome |-> Ended(r), result |-> DictResult(r), log |-> r.log]
    /\ UNCHANGED <<stack, base, peak>>

CallDelattrs ==
    /\ call.op = "none"
    /\ \E attrnames \in NameSeqs, ignore_error \in BOOLEAN :
         LET r == delattrs(obj, attrnames, ignore_error) IN
         /\ obj' = r.obj
         /\ call' = [op |-> "delattrs", args |-> <<>>, kwargs |-> <<>>,
                     attrnames |-> attrnames, ignore_error |-> ignore_error, pre |-> obj,
                     outcome |-> Ended(r), result |-> NoResult(r), log |-> r.log]
    /\ UNCHANGED <<stack, base, peak>>

Next == CallGetattrs \/ CallSetattrs \/ CallPushattrs \/ CallDelattrs

Spec == Init /\ [][Next]_vars

(***************************************************************************)
(* Nested pushattrs / popattrs on one object.  stack holds the snapshots   *)
(* returned by the pushattrs calls not yet undone, base the object before  *)
(* the first of them, peak the number of snapshots taken.  Here call       *)
(* records the last call's name, how it ended and whether it changed obj.  *)
(***************************************************************************)
\* The names the nested calls write; the object's other attribute is never named.
NestNames == {"a", "obj"}
OverNestNames(S) == {s \in S : KeysOf(s) \subseteq NestNames}

\* (args, kwargs) of a nested pushattrs call: an attribute set in one form.
NestForms ==
    ({<<>>} \X OverNestNames(DictSeqs(MaxNestLen) \ {<<>>}))
      \cup ({<<Positional(t, s)>> : t \in {"list", "tuple"}, s \in OverNestNames(PairSeqs(MaxNestLen))}
              \X {<<>>})
      \cup ({<<Positional("dict", s)>> : s \in OverNestNames(DictSeqs(MaxNestLen))} \X {<<>>})

FormItems(f) == IF Len(f[1]) = 1 THEN f[1][1].items ELSE f[2]

\* The caller pushes, then pops everything: no pushattrs once a popattrs is made.
NestedPush ==
    /\ call.op # "popattrs"
    /\ Len(stack) < MaxDepth
    /\ \E f \in NestForms :
         /\ NoDup(FormItems(f))
         /\ KeysOf(FormItems(f)) \subseteq DOMAIN obj
         /\ LET r == pushattrs(obj, f[1], f[2]) IN
            /\ obj' = r.obj
            /\ call' = [op |-> "pushattrs", outcome |-> Ended(r), changed |-> r.obj # obj]
            /\ stack' = IF r.exc = "none" THEN Append(stack, r.dict) ELSE stack
            /\ peak' = IF r.exc = "none" THEN Len(stack) + 1 ELSE peak
    /\ UNCHANGED base

NestedPop ==
    /\ stack # <<>>
    /\ LET r == popattrs(obj, <<Positional("dict", stack[Len(stack)])>>, <<>>) IN
       /\ obj' = r.obj
       /\ call' = [op |-> "popattrs", outcome |-> Ended(r), changed |-> r.obj # obj]
       /\ stack' = SubSeq(stack, 1, Len(stack) - 1)
    /\ UNCHANGED <<base, peak>>

NextNest == NestedPush \/ NestedPop

SpecNest == Init /\ [][NextNest]_vars

(***************************************************************************)
(* Vocabulary of the properties.                                           *)
(***************************************************************************)
IsWrite == call.op \in {"setattrs", "pushattrs"}
\* The attribute set a call of setattrs or pushattrs supplies.
AttrSet == IF Len(call.args) = 1 THEN call.args[1].items ELSE call.kwargs
\* Attribute n is present or absent alike in o1 and o2, with the same value.
SameAt(o1, o2, n) ==
    /\ (n \in DOMAIN o1) = (n \in DOMAIN o2)
    /\ n \in DOMAIN o1 => o1[n] = o2[n]
RangeOf(s) == {s[i] : i \in 1..Len(s)}
\* Entry i is the last entry of items for its name.
LastFor(items, i, upto) == \A j \in (i + 1)..upto : items[j][1] # items[i][1]

\* C1: after setattrs of an attribute set without duplicate names completes,
\* every name of the set holds the value supplied for it, and every other
\* attribute is present or absent as before, with the value it had.
C1_SetattrsWritesExactly ==
    (call.op = "setattrs" /\ call.outcome = "ok" /\ NoDup(AttrSet)) =>
        /\ \A i \in 1..Len(AttrSet) :
             /\ AttrSet[i][1] \in DOMAIN obj
             /\ obj[AttrSet[i][1]] = AttrSet[i][2]
        /\ \A n \in Names \ KeysOf(AttrSet) : SameAt(obj, call.pre, n)

C1_Witness ==
    /\ call.op = "setattrs" /\ call.outcome = "ok"
    /\ Len(AttrSet) = 2 /\ NoDup(AttrSet)
    /\ \E i \in 1..2 : AttrSet[i][1] \notin DOMAIN call.pre
    /\ \E i \in 1..2 : AttrSet[i][1] \in DOMAIN call.pre
                         /\ call.pre[AttrSet[i][1]] # AttrSet[i][2]
    /\ \E n \in DOMAIN call.pre : n \notin KeysOf(AttrSet)

\* C2: a pushattrs call that completes on an object where all named attributes
\* are present returns a snapshot whose keys are exactly the written names, each
\* mapped to the value the object held for it before the call began, and
\* afterwards each written name holds its new value.
C2_SnapshotHoldsValuesBeforeCall ==
    (call.op = "pushattrs" /\ call.outcome = "ok"
        /\ KeysOf(AttrSet) \subseteq DOMAIN call.pre) =>
        /\ call.result.kind = "dict"
        /\ KeysOf(call.result.items) = KeysOf(AttrSet)
        /\ \A k \in KeysOf(call.result.items) :
             DictGet(call.result.items, k) = call.pre[k]
        /\ \A i \in 1..Len(AttrSet) :
             LastFor(AttrSet, i, Len(AttrSet)) => obj[AttrSet[i][1]] = AttrSet[i][2]

\* What does hold of C2: the same, for an attribute set without duplicate names.
SnapshotHoldsValuesWithoutDuplicates ==
    (call.op = "pushattrs" /\ NoDup(AttrSet)) => C2_SnapshotHoldsValuesBeforeCall

\* C3: once the snapshots of nested pushattrs calls (attribute sets without
\* duplicate names, all names present) have all been fed back to popattrs, last
\* first, every attribute of the object is as it was before the first pushattrs.
C3_PopattrsRestores ==
    (call.op = "popattrs" /\ stack = <<>>) =>
        /\ call.outcome = "ok"
        /\ obj = base

C3_Witness ==
    /\ call.op = "popattrs" /\ stack = <<>>
    /\ peak >= 2
    /\ call.changed
    /\ obj = base

\* The call breaks the argument-form rules: both forms, more than one positional
\* argument, or a positional argument that is no list, tuple or dict.
BadForm ==
    \/ Len(call.args) # 0 /\ Len(call.kwargs) # 0
    \/ Len(call.args) > 1
    \/ Len(call.args) = 1 /\ call.args[1].type \notin {"list", "tuple", "dict"}

\* C4: setattrs and pushattrs raise TypeError for both forms at once, for more
\* than one positional argument and for a positional argument that is no list,
\* tuple or dict, before any attribute is read or written.
C4_BadFormsRaiseUntouched ==
    (IsWrite /\ BadForm) =>
        /\ call.outcome = "TypeError"
        /\ call.log = <<>>
        /\ obj = call.pre

C4_Witness ==
    /\ call.op = "pushattrs"
    /\ Len(call.args) = 2 /\ call.kwargs = <<>>
    /\ call.args[1].type = "list" /\ call.args[1].items # <<>>
    /\ call.args[1].items[1][1] \in DOMAIN call.pre
    /\ call.outcome = "TypeError"

\* Name i of the sequence is absent when delattrs reaches it: absent from the
\* object before the call, or already named earlier in the sequence.
AbsentAt(i) ==
    \/ call.attrnames[i] \notin DOMAIN call.pre
    \/ \E j \in 1..(i - 1) : call.attrnames[j] = call.attrnames[i]
HasAbsent == \E i \in 1..Len(call.attrnames) : AbsentAt(i)
FirstAbsent ==
    CHOOSE i \in 1..Len(call.attrnames) : AbsentAt(i) /\ \A j \in 1..(i - 1) : ~AbsentAt(j)

\* C5: delattrs without ignore_error raises AttributeError at the first absent
\* name, position k: the names before k are deleted, and every attribute named
\* only after k is still present with its value.
C5_DelattrsStopsAtFirstAbsent ==
    (call.op = "delattrs" /\ ~call.ignore_error /\ HasAbsent) =>
        LET k == FirstAbsent IN
        /\ call.outcome = "AttributeError"
        /\ \A i \in 1..(k - 1) : call.attrnames[i] \notin DOMAIN obj
        /\ \A n \in DOMAIN call.pre :
             ((\E i \in (k + 1)..Len(call.attrnames) : call.attrnames[i] = n)
                 /\ (\A i \in 1..k : call.attrnames[i] # n))
               => (n \in DOMAIN obj /\ obj[n] = call.pre[n])

C5_Witness ==
    /\ call.op = "delattrs" /\ ~call.ignore_error /\ HasAbsent
    /\ Len(call.attrnames) = 3 /\ FirstAbsent = 2
    /\ call.attrnames[1] \in DOMAIN call.pre
    /\ call.attrnames[3] \in DOMAIN obj
    /\ call.outcome = "AttributeError"

\* C6: delattrs with ignore_error completes whatever names are absent or
\* repeated; afterwards no listed name is present and every attribute not
\* listed is as before.
C6_DelattrsIgnoringCompletes ==
    (call.op = "delattrs" /\ call.ignore_error) =>
        /\ call.outcome = "ok"
        /\ \A i \in 1..Len(call.attrnames) : call.attrnames[i] \notin DOMAIN obj
        /\ \A n \in Names \ RangeOf(call.attrnames) : SameAt(obj, call.pre, n)

C6_Witness ==
    /\ call.op = "delattrs" /\ call.ignore_error /\ call.outcome = "ok"
    /\ Len(call.attrnames) = 3
    /\ call.attrnames[1] \notin DOMAIN call.pre
    /\ call.attrnames[2] \in DOMAIN call.pre
    /\ call.attrnames[3] = call.attrnames[2]
    /\ \E n \in DOMAIN obj : n \notin RangeOf(call.attrnames)

\* The rearrangements of a sequence without repeated elements.
Perms(s) == {t \in [1..Len(s) -> RangeOf(s)] : RangeOf(t) = RangeOf(s)}
\* A call of setattrs on the same object ends as the recorded call did.
EndsAlike(r) == Ended(r) = call.outcome /\ r.obj = obj

\* C7: a non-empty attribute set without duplicate names has the same outcome
\* and leaves the same object whether setattrs gets it as a dict, as a list or
\* tuple of pairs in any order, or as keyword arguments.
C7_CallingConventionsAgree ==
    (call.op = "setattrs" /\ Len(call.args) = 1 /\ call.kwargs = <<>>
        /\ call.args[1].type = "dict" /\ call.args[1].items # <<>>) =>
        LET S == call.args[1].items IN
        /\ \A p \in Perms(S) : \A t \in {"list", "tuple"} :
             EndsAlike(setattrs(call.pre, <<Positional(t, p)>>, <<>>))
        /\ EndsAlike(setattrs(call.pre, <<>>, S))

\* What does hold of C7: the same, for an attribute set that does not name obj.
ConventionsAgreeUnlessObjNamed ==
    (call.op = "setattrs" /\ Len(call.args) = 1 /\ ~DictHas(call.args[1].items, "obj"))
        => C7_CallingConventionsAgree

\* C8: getattrs leaves the object alone; with every name present it returns a
\* mapping whose keys are the requested names, each with the object's value; with
\* a name absent it raises AttributeError.
C8_GetattrsReadsCurrentValues ==
    (call.op = "getattrs") =>
        /\ obj = call.pre
        /\ (RangeOf(call.attrnames) \subseteq DOMAIN call.pre) =>
             /\ call.outcome = "ok"
             /\ call.result.kind = "dict"
             /\ KeysOf(call.result.items) = RangeOf(call.attrnames)
             /\ \A k \in KeysOf(call.result.items) : DictGet(call.result.items, k) = obj[k]
        /\ ~(RangeOf(call.attrnames) \subseteq DOMAIN call.pre) =>
             call.outcome = "AttributeError"

C8_Witness ==
    /\ call.op = "getattrs" /\ call.outcome = "ok"
    /\ Len(call.attrnames) = 3
    /\ Cardinality(RangeOf(call.attrnames)) = 2
    /\ \E k \in RangeOf(call.attrnames) : obj[k] = 0
    /\ \E k \in RangeOf(call.attrnames) : obj[k] = 1

\* The call supplies an attribute set in exactly one of the accepted forms.
OneForm ==
    \/ Len(call.args) = 0 /\ Len(call.kwargs) # 0
    \/ Len(call.args) = 1 /\ Len(call.kwargs) = 0
         /\ call.args[1].type \in {"list", "tuple", "dict"}
HasAbsentEntry == \E i \in 1..Len(AttrSet) : AttrSet[i][1] \notin DOMAIN call.pre
FirstAbsentEntry ==
    CHOOSE i \in 1..Len(AttrSet) :
        /\ AttrSet[i][1] \notin DOMAIN call.pre
        /\ \A j \in 1..(i - 1) : AttrSet[j][1] \in DOMAIN call.pre
\* pushattrs raised AttributeError at entry k: the entries before k are
\* written, entry k and the later ones are not, no snapshot is returned.
AbortedAt(k) ==
    /\ call.outcome = "AttributeError"
    /\ call.result.kind = "raised"
    /\ \A i \in 1..(k - 1) :
         LastFor(AttrSet, i, k - 1) =>
             (AttrSet[i][1] \in DOMAIN obj /\ obj[AttrSet[i][1]] = AttrSet[i][2])
    /\ \A n \in Names \ KeysOf(SubSeq(AttrSet, 1, k - 1)) : SameAt(obj, call.pre, n)

\* C9: when entry k of the attribute set of pushattrs is the first to name an
\* absent attribute, the call raises AttributeError and returns no snapshot, the
\* entries before k are written and entry k and the later ones are not.
C9_PushattrsAbortsAtFirstAbsent ==
    (call.op = "pushattrs" /\ OneForm /\ HasAbsentEntry) => AbortedAt(FirstAbsentEntry)

\* What does hold of C9: the same, for a call that passes no keyword named obj.
PushattrsAbortsUnlessObjKeyword ==
    (call.op = "pushattrs" /\ OneForm /\ HasAbsentEntry /\ ~BindsObjTwice(call.kwargs))
        => AbortedAt(FirstAbsentEntry)

\* C10: setattrs and pushattrs with no positional and no keyword argument raise
\* TypeError and leave the object alone; with one empty list, tuple or dict they
\* complete and change nothing, pushattrs returning an empty snapshot.
C10_NeitherFormRaisesEmptySetPasses ==
    IsWrite =>
        /\ (call.args = <<>> /\ call.kwargs = <<>>) =>
             /\ call.outcome = "TypeError"
             /\ call.log = <<>>
             /\ obj = call.pre
        /\ (Len(call.args) = 1 /\ call.kwargs = <<>>
              /\ call.args[1].type \in {"list", "tuple", "dict"}
              /\ call.args[1].items = <<>>) =>
             /\ call.outcome = "ok"
             /\ call.log = <<>>
             /\ obj = call.pre
             /\ call.op = "pushattrs" => call.result = [kind |-> "dict", items |-> <<>>]

C10_Witness ==
    /\ call.op = "pushattrs"
    /\ call.args = <<Positional("dict", <<>>)>> /\ call.kwargs = <<>>
    /\ call.outcome = "ok"
    /\ DOMAIN call.pre = Names

====
